---- MODULE Spec2Model ----
(***************************************************************************)
(* Sphere tracer: distance-field evaluation (distance_fields.rs), the      *)
(* sphere-tracing integrator and the shading pipeline (ray_marching.rs),   *)
(* with the vector algebra they use (math/vec3.rs, math/vec4.rs,           *)
(* math/ray.rs).                                                           *)
(*                                                                         *)
(* Numbers.  The program computes in f64.  The model computes in fixed     *)
(* point: the integer v stands for the real v / SCALE.  A product of two   *)
(* numbers is exact at resolution SCALE*SCALE and is rounded once, to the  *)
(* nearest multiple of 1/SCALE, when it is stored; the same holds for a    *)
(* quotient and a square root.  The three non-finite values of f64 are     *)
(* kept: PosInf, NegInf and NaN, with the IEEE-754 rules the program       *)
(* relies on (x/0, 0*inf, comparisons with NaN are false, f64::min and     *)
(* f64::max return the operand that is not NaN).  MaxFinite is the largest *)
(* finite number; a result beyond it is an infinity, as in f64.            *)
(***************************************************************************)
EXTENDS Integers, Sequences, FiniteSets, TLC

\* resolution of the fixed-point numbers: 1.0 is SCALE
SCALE == 100
\* smallest positive number of the model; stands for every positive f64
\* literal below the resolution (0.00001, 0.000001)
Quantum == 1

MaxFinite == 2000000000
PosInf == MaxFinite + 1
NegInf == -PosInf
NaN == MaxFinite + 2

IsNaN(a) == a = NaN
IsInf(a) == a = PosInf \/ a = NegInf
IsFinite(a) == ~IsNaN(a) /\ ~IsInf(a)

Sign(a) == IF a > 0 THEN 1 ELSE IF a < 0 THEN -1 ELSE 0
IAbs(a) == IF a < 0 THEN -a ELSE a

\* n / d rounded to the nearest integer, halves away from zero (d # 0)
RoundUp(r, d) == IF r >= d - r THEN 1 ELSE 0
RDiv(n, d) ==
    Sign(n) * Sign(d)
    * ((IAbs(n) \div IAbs(d)) + RoundUp(IAbs(n) % IAbs(d), IAbs(d)))

IMin(a, b) == IF a < b THEN a ELSE b
IMax(a, b) == IF a > b THEN a ELSE b

RECURSIVE SqrtSearch(_, _, _)
\* largest r in lo..hi with r*r <= n
SqrtSearch(n, lo, hi) ==
    IF lo >= hi THEN lo
    ELSE IF ((lo + hi + 1) \div 2) * ((lo + hi + 1) \div 2) <= n
         THEN SqrtSearch(n, (lo + hi + 1) \div 2, hi)
         ELSE SqrtSearch(n, lo, ((lo + hi + 1) \div 2) - 1)

\* r or r + 1, whichever is nearer to the square root of n
SqrtNearest(n, r) == IF n - r * r > r THEN r + 1 ELSE r

\* integer square root of n >= 0, rounded to the nearest integer
ISqrt(n) == SqrtNearest(n, SqrtSearch(n, 0, IMin(n, 46340)))

(***************************************************************************)
(* f64 arithmetic                                                          *)
(***************************************************************************)
FNeg(a) ==
    IF IsNaN(a) THEN NaN
    ELSE IF a = PosInf THEN NegInf
    ELSE IF a = NegInf THEN PosInf
    ELSE -a

FAdd(a, b) ==
    IF IsNaN(a) \/ IsNaN(b) THEN NaN
    ELSE IF IsInf(a) /\ IsInf(b) THEN (IF a = b THEN a ELSE NaN)
    ELSE IF IsInf(a) THEN a
    ELSE IF IsInf(b) THEN b
    ELSE IF a > 0 /\ b > MaxFinite - a THEN PosInf
    ELSE IF a < 0 /\ b < (-MaxFinite) - a THEN NegInf
    ELSE a + b

FSub(a, b) == FAdd(a, FNeg(b))

\* the sign of a product or quotient with an infinite result
InfOfSign(s) == IF s > 0 THEN PosInf ELSE NegInf

\* |a * b| / SCALE for finite a and b, rounded; PosInf beyond MaxFinite
Saturate(m) == IF m > MaxFinite THEN PosInf ELSE m
WithSign(s, m) == IF s < 0 THEN FNeg(m) ELSE m

\* x * y / SCALE for x >= y >= 0, x split in x \div SCALE and x % SCALE
MulSplit(x, y) ==
    IF y = 0 THEN 0
    ELSE IF x \div SCALE > 0 /\ y > MaxFinite \div (x \div SCALE) THEN PosInf
    ELSE Saturate((x \div SCALE) * y + RDiv((x % SCALE) * y, SCALE))

MulMagnitude(a, b) ==
    MulSplit(IMax(IAbs(a), IAbs(b)), IMin(IAbs(a), IAbs(b)))

FMul(a, b) ==
    IF IsNaN(a) \/ IsNaN(b) THEN NaN
    ELSE IF IsInf(a) \/ IsInf(b)
         THEN (IF a = 0 \/ b = 0 THEN NaN ELSE InfOfSign(Sign(a) * Sign(b)))
    ELSE WithSign(Sign(a) * Sign(b), MulMagnitude(a, b))

\* |a| * SCALE / |b| for finite a and b # 0, rounded; PosInf beyond MaxFinite
\* r * SCALE / y for 0 <= r < y
DivFraction(r, y) ==
    IF r <= MaxFinite \div (2 * SCALE) THEN RDiv(r * SCALE, y)
    ELSE RDiv(r, RDiv(y, SCALE))

\* x * SCALE / y for x >= 0 and y > 0, x split in x \div y and x % y
DivSplit(x, y) ==
    IF x \div y >= MaxFinite \div SCALE THEN PosInf
    ELSE Saturate((x \div y) * SCALE + DivFraction(x % y, y))

DivMagnitude(a, b) == DivSplit(IAbs(a), IAbs(b))

FDiv(a, b) ==
    IF IsNaN(a) \/ IsNaN(b) THEN NaN
    ELSE IF IsInf(a) /\ IsInf(b) THEN NaN
    ELSE IF IsInf(a) THEN InfOfSign(Sign(a) * (IF b < 0 THEN -1 ELSE 1))
    ELSE IF IsInf(b) THEN 0
    ELSE IF b = 0 THEN (IF a = 0 THEN NaN ELSE InfOfSign(Sign(a)))
    ELSE WithSign(Sign(a) * Sign(b), DivMagnitude(a, b))

\* comparisons: false as soon as one operand is NaN
FLt(a, b) == ~IsNaN(a) /\ ~IsNaN(b) /\ a < b
FGt(a, b) == ~IsNaN(a) /\ ~IsNaN(b) /\ a > b

\* f64::min, f64::max: the operand that is not NaN
FMin(a, b) ==
    IF IsNaN(a) THEN b ELSE IF IsNaN(b) THEN a ELSE IF a < b THEN a ELSE b
FMax(a, b) ==
    IF IsNaN(a) THEN b ELSE IF IsNaN(b) THEN a ELSE IF a > b THEN a ELSE b

\* f64::clamp and num::clamp: NaN stays NaN
FClamp(x, lo, hi) ==
    IF IsNaN(x) THEN NaN ELSE IF x < lo THEN lo ELSE IF x > hi THEN hi ELSE x

FAbs(a) ==
    IF IsNaN(a) THEN NaN ELSE IF IsInf(a) THEN PosInf ELSE IAbs(a)

\* f64::sqrt of a stored number
FSqrt(a) ==
    IF IsNaN(a) \/ a < 0 THEN NaN
    ELSE IF a = PosInf THEN PosInf
    ELSE IF a <= MaxFinite \div SCALE THEN ISqrt(a * SCALE)
    ELSE ISqrt(a \div SCALE) * SCALE

\* numbers small enough for a sum of four exact squares to be computed
IsSmall(a) == IsFinite(a) /\ IAbs(a) <= 20000
\* the exact product a*b, at resolution SCALE*SCALE, of two small numbers
Prod2(a, b) == a * b
\* f64::sqrt of an exact sum of products (resolution SCALE*SCALE)
Sqrt2(s) == IF s < 0 THEN NaN ELSE ISqrt(s)

\* 10000 * ln(a / SCALE) for a finite a > 0: range reduction by 2, then the
\* atanh series
LnSeries5(y, y2, y3) == 2 * (y + RDiv(y3, 3) + RDiv(RDiv(y3 * y2, 10000), 5))
LnSeries3(y, y2) == LnSeries5(y, y2, RDiv(y2 * y, 10000))
LnSeries(y) == LnSeries3(y, RDiv(y * y, 10000))

RECURSIVE LnFix(_)
LnFix(a) ==
    IF a >= 2 * SCALE THEN LnFix(RDiv(a, 2)) + 6931
    ELSE IF a < SCALE THEN LnFix(2 * a) - 6931
    ELSE LnSeries(RDiv((a - SCALE) * 10000, a + SCALE))

\* f64::ln
FLn(a) ==
    IF IsNaN(a) \/ a < 0 THEN NaN
    ELSE IF a = 0 THEN NegInf
    ELSE IF a = PosInf THEN PosInf
    ELSE RDiv(LnFix(a) * SCALE, 10000)

(***************************************************************************)
(* math/vec3.rs                                                            *)
(***************************************************************************)
Vec3_new(x, y, z) == [x |-> x, y |-> y, z |-> z]
Vec3_zero == Vec3_new(0, 0, 0)
Vec3_one == Vec3_new(SCALE, SCALE, SCALE)

Vec3_dot(a, b) ==
    FAdd(FAdd(FMul(a.x, b.x), FMul(a.y, b.y)), FMul(a.z, b.z))

Vec3_sqr_length(v) == Vec3_dot(v, v)

\* sqr_length().sqrt(); the squared length is not rounded before the root
Vec3_length(v) ==
    IF IsSmall(v.x) /\ IsSmall(v.y) /\ IsSmall(v.z)
    THEN Sqrt2(Prod2(v.x, v.x) + Prod2(v.y, v.y) + Prod2(v.z, v.z))
    ELSE FSqrt(Vec3_sqr_length(v))

Vec3_abs(v) == Vec3_new(FAbs(v.x), FAbs(v.y), FAbs(v.z))
Vec3_max(a, b) == Vec3_new(FMax(a.x, b), FMax(a.y, b), FMax(a.z, b))
Vec3_max_element(v) == FMax(FMax(v.x, v.y), v.z)
Vec3_clamp(v, lo, hi) ==
    Vec3_new(FClamp(v.x, lo, hi), FClamp(v.y, lo, hi), FClamp(v.z, lo, hi))

Vec3_internal_add_vec_vec(a, b) == Vec3_new(FAdd(a.x, b.x), FAdd(a.y, b.y), FAdd(a.z, b.z))
Vec3_internal_add_vec_scalar(a, b) == Vec3_new(FAdd(a.x, b), FAdd(a.y, b), FAdd(a.z, b))
Vec3_internal_sub_vec_vec(a, b) == Vec3_new(FSub(a.x, b.x), FSub(a.y, b.y), FSub(a.z, b.z))
Vec3_internal_mul_vec_vec(a, b) == Vec3_new(FMul(a.x, b.x), FMul(a.y, b.y), FMul(a.z, b.z))
Vec3_internal_mul_vec_scalar(a, b) == Vec3_new(FMul(a.x, b), FMul(a.y, b), FMul(a.z, b))
Vec3_internal_div_vec_scalar(a, b) == Vec3_new(FDiv(a.x, b), FDiv(a.y, b), FDiv(a.z, b))
Vec3_internal_neg_vec(a) == Vec3_new(FNeg(a.x), FNeg(a.y), FNeg(a.z))

\* a vector, not zero, short enough for its length to be computed at
\* resolution SCALE*SCALE
IsShort(v) ==
    /\ IsFinite(v.x) /\ IsFinite(v.y) /\ IsFinite(v.z)
    /\ IAbs(v.x) * SCALE <= 20000
    /\ IAbs(v.y) * SCALE <= 20000
    /\ IAbs(v.z) * SCALE <= 20000
    /\ v # Vec3_zero

\* SCALE times the length of a short vector
FineLength(v) ==
    ISqrt(Prod2(v.x * SCALE, v.x * SCALE) + Prod2(v.y * SCALE, v.y * SCALE)
          + Prod2(v.z * SCALE, v.z * SCALE))

Vec3_div_fine(v, len) ==
    Vec3_new(RDiv(v.x * SCALE * SCALE, len), RDiv(v.y * SCALE * SCALE, len),
             RDiv(v.z * SCALE * SCALE, len))

\* self / self.length(); the length of a short vector is not rounded to the
\* resolution before the division, so that the quotient is rounded once
Vec3_normalize(v) ==
    IF IsShort(v) THEN Vec3_div_fine(v, FineLength(v))
    ELSE Vec3_internal_div_vec_scalar(v, Vec3_length(v))

(***************************************************************************)
(* math/vec4.rs                                                            *)
(***************************************************************************)
Vec4_new(x, y, z, w) == [x |-> x, y |-> y, z |-> z, w |-> w]
Vec4_from_vec3(v, w) == Vec4_new(v.x, v.y, v.z, w)
Vec4_one == Vec4_new(SCALE, SCALE, SCALE, SCALE)
Vec4_zero == Vec4_new(0, 0, 0, 0)

Vec4_dot(a, b) ==
    FAdd(FAdd(FAdd(FMul(a.x, b.x), FMul(a.y, b.y)), FMul(a.z, b.z)),
         FMul(a.w, b.w))

Vec4_sqr_length(v) == Vec4_dot(v, v)

\* the fourth component takes b.z, as internal_add_vec_vec writes it
Vec4_internal_add_vec_vec(a, b) ==
    Vec4_new(FAdd(a.x, b.x), FAdd(a.y, b.y), FAdd(a.z, b.z), FAdd(a.w, b.z))

\* the fourth component takes b.z, as internal_mul_vec_vec writes it
Vec4_internal_mul_vec_vec(a, b) ==
    Vec4_new(FMul(a.x, b.x), FMul(a.y, b.y), FMul(a.z, b.z), FMul(a.w, b.z))

Vec4_internal_mul_vec_scalar(a, b) ==
    Vec4_new(FMul(a.x, b), FMul(a.y, b), FMul(a.z, b), FMul(a.w, b))
Vec4_internal_div_vec_scalar(a, b) ==
    Vec4_new(FDiv(a.x, b), FDiv(a.y, b), FDiv(a.z, b), FDiv(a.w, b))

Vec4_q_square(v) ==
    Vec4_new(FSub(FSub(FSub(FMul(v.x, v.x), FMul(v.y, v.y)), FMul(v.z, v.z)),
                  FMul(v.w, v.w)),
             FMul(FMul(v.x, v.y), 2 * SCALE),
             FMul(FMul(v.x, v.z), 2 * SCALE),
             FMul(FMul(v.x, v.w), 2 * SCALE))

\* the result of q_cube from its two locals new_x_factor, new_other_factor
q_cube_result(v, new_x_factor, new_other_factor) ==
    Vec4_new(FMul(v.x, new_x_factor), FMul(v.y, new_other_factor),
             FMul(v.z, new_other_factor), FMul(v.w, new_other_factor))

\* q_cube from its local sqr_self on
q_cube_factors(v, sqr_self) ==
    q_cube_result(v,
        FSub(FSub(FSub(sqr_self.x, FMul(sqr_self.y, 3 * SCALE)),
                  FMul(sqr_self.z, 3 * SCALE)),
             FMul(sqr_self.w, 3 * SCALE)),
        FSub(FSub(FSub(FMul(sqr_self.x, 3 * SCALE), sqr_self.y), sqr_self.z),
             sqr_self.w))

\* let sqr_self = self * self
Vec4_q_cube(v) == q_cube_factors(v, Vec4_internal_mul_vec_vec(v, v))

(***************************************************************************)
(* math/ray.rs                                                             *)
(***************************************************************************)
Ray_new(orig, dir) == [orig |-> orig, dir |-> Vec3_normalize(dir)]

(***************************************************************************)
(* distance_fields.rs.  A DistanceField is a record whose kind names the   *)
(* variant; a combinator holds its two children in a and b.                *)
(***************************************************************************)
Sphere(pos, size) == [kind |-> "Sphere", pos |-> pos, size |-> size]
\* the Vec3 field size of Cuboid is named size3: one set holds all variants
Cuboid(pos, size) == [kind |-> "Cuboid", pos |-> pos, size3 |-> size]
Torus(pos, outer_size, inner_size) ==
    [kind |-> "Torus", pos |-> pos, outer_size |-> outer_size,
     inner_size |-> inner_size]
Plane(normal, h) == [kind |-> "Plane", normal |-> normal, h |-> h]
Julia(pos, iterations, traps, c, cut, cut_y) ==
    [kind |-> "Julia", pos |-> pos, iterations |-> iterations,
     traps |-> traps, c |-> c, cut |-> cut, cut_y |-> cut_y]
Union(a, b) == [kind |-> "Union", a |-> a, b |-> b]
Subtraction(a, b) == [kind |-> "Subtraction", a |-> a, b |-> b]
Intersection(a, b) == [kind |-> "Intersection", a |-> a, b |-> b]

\* Sphere::get_distance measured from the origin, as Torus::get_distance is
Sphere_get_distance_Uncentred(f, p) == FSub(Vec3_length(p), f.size)

Sphere_get_distance(f, p) ==
    FSub(Vec3_length(Vec3_internal_sub_vec_vec(p, f.pos)), f.size)

\* the scalar min(max_element(q), 0) is added to every component of
\* max(q, 0) before the length is taken
Cuboid_of_q(q) ==
    Vec3_length(Vec3_internal_add_vec_scalar(
                    Vec3_max(q, 0), FMin(Vec3_max_element(q), 0)))

\* let q = (p - self.pos).abs() - self.size
Cuboid_get_distance(f, p) ==
    Cuboid_of_q(Vec3_internal_sub_vec_vec(
                    Vec3_abs(Vec3_internal_sub_vec_vec(p, f.pos)), f.size3))

\* (p.x * p.x + p.z * p.z).sqrt(): the sum is not rounded before the root
Torus_ring(p) ==
    IF IsSmall(p.x) /\ IsSmall(p.z)
    THEN Sqrt2(Prod2(p.x, p.x) + Prod2(p.z, p.z))
    ELSE FSqrt(FAdd(FMul(p.x, p.x), FMul(p.z, p.z)))

\* reads p, never p - pos
Torus_get_distance(f, p) ==
    LET q == Vec3_new(FSub(Torus_ring(p), f.outer_size), p.y, 0)
    IN  FSub(Vec3_length(q), f.inner_size)

Plane_get_distance(f, p) == FAdd(Vec3_dot(p, f.normal), f.h)

\* the value 1e10 that the orbit trap starts from
TrapInit == 10000000 * SCALE

\* the locals of Julia::get_distance before its loop
Julia_init(f, p) ==
    [z |-> Vec4_from_vec3(Vec3_internal_sub_vec_vec(p, f.pos), 0),
     sqrt_derive_z |-> 1 * SCALE, m2 |-> 0, n |-> 0, o |-> TrapInit,
     i |-> 0, broke |-> FALSE]

\* ((z.x - 0.45).powi(2) + (z.z - 0.55).powi(2)).sqrt() - 0.1
Julia_new_o_of(dx, dz) ==
    FSub(FSqrt(FAdd(FMul(dx, dx), FMul(dz, dz))), RDiv(10 * SCALE, 100))
Julia_new_o(z) ==
    Julia_new_o_of(FSub(z.x, RDiv(45 * SCALE, 100)),
                   FSub(z.z, RDiv(55 * SCALE, 100)))

\* the locals after one pass, from the new sqrt_derive_z, z and m2
Julia_locals(f, s, sqrt_derive_z, z, m2) ==
    [z |-> z, sqrt_derive_z |-> sqrt_derive_z, m2 |-> m2,
     n |-> IF FGt(m2, 256 * SCALE) THEN s.n ELSE s.n + 1,
     o |-> IF f.traps THEN FMin(s.o, Julia_new_o(z)) ELSE s.o,
     i |-> s.i + 1, broke |-> FGt(m2, 256 * SCALE)]

Julia_with_z(f, s, sqrt_derive_z, z) ==
    Julia_locals(f, s, sqrt_derive_z, z, Vec4_sqr_length(z))

\* one pass through the body of the loop of Julia::get_distance
Julia_iteration(f, s) ==
    Julia_with_z(f, s,
        FMul(s.sqrt_derive_z,
             FMul(9 * SCALE, Vec4_sqr_length(Vec4_q_square(s.z)))),
        Vec4_internal_add_vec_vec(Vec4_q_cube(s.z), f.c))

Julia_loop_done(f, s) == s.broke \/ s.i >= f.iterations

RECURSIVE Julia_loop(_, _)
Julia_loop(f, s) ==
    IF Julia_loop_done(f, s) THEN s ELSE Julia_loop(f, Julia_iteration(f, s))

\* the part of Julia::get_distance after its loop
Julia_cut(f, p, d) == IF f.cut THEN FMax(d, p.y) ELSE d
Julia_trap(f, s, d) == IF f.traps THEN FMin(d, s.o) ELSE d
Julia_finish(f, p, s) ==
    Julia_cut(f, p, Julia_trap(f, s,
        FMul(FMul(RDiv(25 * SCALE, 100), FLn(s.m2)),
             FSqrt(FDiv(s.m2, s.sqrt_derive_z)))))

Julia_get_distance(f, p) == Julia_finish(f, p, Julia_loop(f, Julia_init(f, p)))

RECURSIVE get_distance(_, _)

Union_get_distance(f, p) == FMin(get_distance(f.a, p), get_distance(f.b, p))

\* Subtraction::get_distance with the negation on the other child
Subtraction_get_distance_Swapped(f, p) ==
    FMax(get_distance(f.a, p), FNeg(get_distance(f.b, p)))

Subtraction_get_distance(f, p) ==
    FMax(FNeg(get_distance(f.a, p)), get_distance(f.b, p))

Intersection_get_distance(f, p) ==
    FMax(get_distance(f.a, p), get_distance(f.b, p))

\* DistanceField::get_distance: dispatch on the variant
get_distance(f, p) ==
    CASE f.kind = "Sphere" -> Sphere_get_distance(f, p)
      [] f.kind = "Cuboid" -> Cuboid_get_distance(f, p)
      [] f.kind = "Torus" -> Torus_get_distance(f, p)
      [] f.kind = "Plane" -> Plane_get_distance(f, p)
      [] f.kind = "Julia" -> Julia_get_distance(f, p)
      [] f.kind = "Union" -> Union_get_distance(f, p)
      [] f.kind = "Subtraction" -> Subtraction_get_distance(f, p)
      [] f.kind = "Intersection" -> Intersection_get_distance(f, p)

(***************************************************************************)
(* ray_marching.rs: the RayMarcher and the pure parts of its shading       *)
(***************************************************************************)
create_ray_marcher(scene) ==
    [max_iterations |-> 4000,
     max_distance |-> 7 * SCALE,
     accuracy |-> Quantum,                   \* 0.00001
     debug |-> FALSE,
     obj_color |-> Vec3_new(SCALE, SCALE, SCALE),
     normal_accuracy |-> Quantum,            \* 0.000001
     offset_x |-> Vec3_new(Quantum, 0, 0),
     offset_y |-> Vec3_new(0, Quantum, 0),
     offset_z |-> Vec3_new(0, 0, Quantum),
     scene |-> scene,
     light_dir |-> Vec3_normalize(
                       Vec3_new(RDiv(5 * SCALE, 10), -SCALE, RDiv(5 * SCALE, 10))),
     light_color |-> Vec3_new(SCALE, SCALE, SCALE),
     light_intensity |-> SCALE,
     bg_light_color |-> Vec3_new(SCALE, SCALE, SCALE),
     bg_light_intensity |-> RDiv(SCALE, 10),
     shadow_dist_min |-> 0,
     shadow_dist_max |-> 7 * SCALE,
     shadow_fuzziness |-> 5 * SCALE,
     ao_step_size |-> RDiv(5 * SCALE, 100),
     ao_intensity |-> RDiv(3 * SCALE, 10),
     ao_iterations |-> 3]

distance_field(m, p) == get_distance(m.scene, p)

get_normal(m, p) ==
    Vec3_normalize(Vec3_new(
        FSub(distance_field(m, Vec3_internal_add_vec_vec(p, m.offset_x)),
             distance_field(m, Vec3_internal_sub_vec_vec(p, m.offset_x))),
        FSub(distance_field(m, Vec3_internal_add_vec_vec(p, m.offset_y)),
             distance_field(m, Vec3_internal_sub_vec_vec(p, m.offset_y))),
        FSub(distance_field(m, Vec3_internal_add_vec_vec(p, m.offset_z)),
             distance_field(m, Vec3_internal_sub_vec_vec(p, m.offset_z)))))

\* the loop of ambient_occlusion from iteration k on, ao accumulated so far
RECURSIVE ambient_occlusion_loop(_, _, _, _, _)
\* f64::max(0.0, (dist - self.distance_field(&point)) / dist) at
\* point = p + n * dist
ao_term(m, p, nrm, d) ==
    FMax(0, FDiv(FSub(d, distance_field(m,
                          Vec3_internal_add_vec_vec(
                              p, Vec3_internal_mul_vec_scalar(nrm, d)))),
                 d))

ambient_occlusion_loop(m, p, nrm, k, ao) ==
    IF k >= m.ao_iterations THEN ao
    ELSE ambient_occlusion_loop(m, p, nrm, k + 1,
             FAdd(ao, ao_term(m, p, nrm,
                              FMul(m.ao_step_size, (k + 1) * SCALE))))

ambient_occlusion(m, p, nrm) ==
    FClamp(FSub(SCALE, FMul(ambient_occlusion_loop(m, p, nrm, 0, 0),
                            m.ao_intensity)),
           0, SCALE)

\* the sun term of shading, given the value shadow() returned
sun_light(m, nrm, shadow) ==
    Vec3_internal_mul_vec_vec(m.obj_color,
        Vec3_internal_mul_vec_scalar(
            Vec3_internal_mul_vec_scalar(
                Vec3_internal_mul_vec_scalar(m.light_color,
                    FClamp(Vec3_dot(Vec3_internal_neg_vec(m.light_dir), nrm),
                           0, SCALE)),
                m.light_intensity),
            shadow))

\* the ambient term of shading, given the value ambient_occlusion() returned
bg_light(m, occlusion) ==
    Vec3_internal_mul_vec_scalar(
        Vec3_internal_mul_vec_vec(m.obj_color,
            Vec3_internal_mul_vec_scalar(m.bg_light_color,
                                         m.bg_light_intensity)),
        occlusion)

\* shading with the occlusion applied to the sum of both terms
shading_composite_OccludesSun(m, p, nrm, shadow) ==
    Vec4_from_vec3(
        Vec3_internal_mul_vec_scalar(
            Vec3_internal_add_vec_vec(sun_light(m, nrm, shadow),
                                      bg_light(m, SCALE)),
            ambient_occlusion(m, p, nrm)),
        SCALE)

\* shading after get_normal and shadow have returned
shading_composite(m, p, nrm, shadow) ==
    Vec4_from_vec3(
        Vec3_internal_add_vec_vec(sun_light(m, nrm, shadow),
                                  bg_light(m, ambient_occlusion(m, p, nrm))),
        SCALE)

\* debug_color that counts the steps from one
debug_color_OneBased(m, k) ==
    Vec4_internal_div_vec_scalar(
        Vec4_internal_mul_vec_scalar(Vec4_one, (k + 1) * SCALE),
        m.max_iterations * SCALE)

\* Vec4::one() * i as f64 / self.max_iterations as f64
debug_color(m, k) ==
    Vec4_internal_div_vec_scalar(
        Vec4_internal_mul_vec_scalar(Vec4_one, k * SCALE),
        m.max_iterations * SCALE)

(***************************************************************************)
(* ray_marching.rs: ray_marching as a function of the RayMarcher and the   *)
(* ray, as calc_row calls it                                               *)
(***************************************************************************)
RECURSIVE shadow_loop(_, _, _, _)
\* the body of the loop of shadow at the sample d
shadow_sample(m, s, tt, res, d) ==
    IF FLt(d, m.accuracy) THEN 0
    ELSE shadow_loop(m, s, FAdd(tt, d),
                     FMin(res, FDiv(FMul(m.shadow_fuzziness, d), tt)))

\* while t < self.shadow_dist_max, on the shadow ray s
shadow_loop(m, s, tt, res) ==
    IF ~FLt(tt, m.shadow_dist_max) THEN FClamp(res, 0, SCALE)
    ELSE shadow_sample(m, s, tt, res,
             distance_field(m, Vec3_internal_add_vec_vec(s.orig,
                                   Vec3_internal_mul_vec_scalar(s.dir, tt))))

shadow(m, p, nrm) ==
    shadow_loop(m,
        Ray_new(Vec3_internal_add_vec_vec(p,
                    Vec3_internal_mul_vec_scalar(nrm, m.accuracy)),
                Vec3_internal_neg_vec(m.light_dir)),
        m.shadow_dist_min, SCALE)

shading_with_normal(m, p, nrm) ==
    shading_composite(m, p, nrm, shadow(m, p, nrm))

shading(m, p) == shading_with_normal(m, p, get_normal(m, p))

RECURSIVE ray_marching_loop(_, _, _, _)
\* the body of the loop of ray_marching at the sample d taken at p
ray_marching_sample(m, r, k, tt, p, d) ==
    IF FLt(d, m.accuracy)
    THEN IF m.debug THEN debug_color(m, k) ELSE shading(m, p)
    ELSE ray_marching_loop(m, r, k + 1, FAdd(tt, d))

ray_marching_at(m, r, k, tt, p) ==
    ray_marching_sample(m, r, k, tt, p, distance_field(m, p))

\* for i in 0..self.max_iterations, from i = k on
ray_marching_loop(m, r, k, tt) ==
    IF k >= m.max_iterations THEN Vec4_one
    ELSE IF FGt(tt, m.max_distance)
         THEN IF m.debug THEN debug_color(m, k) ELSE Vec4_zero
         ELSE ray_marching_at(m, r, k, tt,
                  Vec3_internal_add_vec_vec(r.orig,
                      Vec3_internal_mul_vec_scalar(r.dir, tt)))

ray_marching(m, r) == ray_marching_loop(m, r, 0, 0)

(***************************************************************************)
(* State                                                                   *)
(***************************************************************************)
VARIABLES
    rm,          \* the RayMarcher (configuration and scene)
    ray,         \* the argument of ray_marching
    pc,          \* "march", "shadow" or "done": where ray_marching is
    i,           \* the loop variable of the primary march
    t,           \* the parameter of the primary march
    result,      \* the local result of ray_marching, its return value
    evals,       \* field evaluations made by the loop of ray_marching
    outcome,     \* "none", "miss", "hit" or "exhausted"
    hit_p,       \* the point handed to shading
    shade_calls, \* number of calls of shading
    dsum,        \* sum of the field values of the samples so far
    prior_ok,    \* every sample so far had d >= accuracy and t <= max_distance
    n,           \* the normal get_normal returned to shading
    sr,          \* the shadow ray
    st,          \* the parameter of the shadow march
    sres,        \* the local result of shadow
    shadow_ret,  \* the value shadow returned
    sevals,      \* field evaluations made by the loop of shadow
    fpc,         \* "idle", "eval", "julia" or "done": where get_distance is
    field,       \* the field get_distance is called on
    point,       \* the point get_distance is called with
    js,          \* the locals of Julia::get_distance
    jprev,       \* z before the latest pass of the Julia loop
    dist,        \* the value get_distance returned
    arc_ray_marcher, \* the RayMarcher create_image shares with its workers
    rpc,         \* "idle", "spawn", "join", "put", "returned" or "aborted"
    row_j,       \* the loop variable j of create_image
    col_i,       \* the loop variable i of create_image
    rows,        \* the array rows: "uninit", "some" (a handle) or "none"
    row,         \* the row create_image took from the joined worker
    image,       \* the RgbImage
    written,     \* the pixels put_pixel was called on
    joined,      \* number of joins of each worker
    worker_pc,   \* "unspawned", "running", "finished" or "joined"
    worker_i,    \* the loop variable i of each worker
    worker_row,  \* the local row of each worker
    pixel_color, \* the colour calc_row hands to to_pixel_data
    pixel_data   \* the bytes to_pixel_data returned, <<-1, -1, -1>> before

march_vars == <<rm, ray, pc, i, t, result, evals, outcome, hit_p, shade_calls,
                dsum, prior_ok, n, sr, st, sres, shadow_ret, sevals>>
field_vars == <<fpc, field, point, js, jprev, dist>>
image_vars == <<arc_ray_marcher, rpc, row_j, col_i, rows, row, image, written,
                joined, worker_pc, worker_i, worker_row, pixel_color,
                pixel_data>>
vars == <<rm, ray, pc, i, t, result, evals, outcome, hit_p, shade_calls,
          dsum, prior_ok, n, sr, st, sres, shadow_ret, sevals,
          fpc, field, point, js, jprev, dist,
          arc_ray_marcher, rpc, row_j, col_i, rows, row, image, written,
          joined, worker_pc, worker_i, worker_row, pixel_color,
          pixel_data>>

(***************************************************************************)
(* Bounds and inputs                                                       *)
(***************************************************************************)
\* largest max_iterations of the small RayMarchers
MaxIter == 3
\* largest iteration count of the Julia fields
MaxJuliaIter == 2
\* the size of the image in the model, for IMAGE_WIDTH = 2160 and
\* IMAGE_HEIGHT = 1215
IMAGE_WIDTH == 2
IMAGE_HEIGHT == 3

V(x, y, z) == Vec3_new(RDiv(x * SCALE, 100), RDiv(y * SCALE, 100),
                       RDiv(z * SCALE, 100))

UnitSphere == Sphere(V(0, 0, -200), RDiv(SCALE, 2))
MainSphere == Sphere(V(0, 0, -200), RDiv(2 * SCALE, 10))
OriginSphere == Sphere(V(0, 0, 0), RDiv(SCALE, 2))
Floor == Plane(V(0, 100, 0), SCALE)
NearPlane == Plane(V(0, 100, 0), Quantum)
Box == Cuboid(V(0, 0, -200), V(50, 50, 50))
Ring == Torus(V(0, 0, -200), SCALE, RDiv(SCALE, 4))
JuliaC == Vec4_internal_div_vec_scalar(
              Vec4_new(RDiv(-151 * SCALE, 100), RDiv(59 * SCALE, 10),
                       4 * SCALE, -2 * SCALE),
              10 * SCALE)

Scenes ==
    {UnitSphere, MainSphere, OriginSphere, Floor, NearPlane, Box, Ring,
     Union(UnitSphere, Floor),
     Subtraction(UnitSphere, Box),
     Intersection(UnitSphere, Box),
     Julia(V(0, 0, -100), 1, FALSE, JuliaC, TRUE, 0),
     Plane(V(71, 0, -71), 0),
     Julia(V(0, 0, -100), 0, FALSE, JuliaC, FALSE, 0)}

Rays ==
    {Ray_new(V(0, 0, 0), V(0, 0, -100)),
     Ray_new(V(0, 0, 0), V(0, 0, 100)),
     Ray_new(V(0, 0, 0), V(100, 0, 0)),
     Ray_new(V(0, 60, 0), V(0, 0, -100)),
     Ray_new(V(0, 0, 0), V(0, -100, -100)),
     Ray_new(V(-100, 200, -300), V(50, -100, 50)),
     Ray_new(V(-50, 50, -250), V(50, -50, 50))}

\* the RayMarcher main builds, and RayMarchers with other public fields
RayMarchers ==
    {create_ray_marcher(s) : s \in Scenes}
    \cup {[create_ray_marcher(s) EXCEPT !.max_iterations = k,
                                        !.max_distance = md,
                                        !.shadow_dist_max = md,
                                        !.debug = dbg] :
            s \in Scenes, k \in 1..MaxIter, md \in {2 * SCALE, 7 * SCALE},
            dbg \in BOOLEAN}

NoRay == [orig |-> Vec3_zero, dir |-> Vec3_zero]
NoJulia == [z |-> Vec4_zero, sqrt_derive_z |-> 0, m2 |-> 0, n |-> 0, o |-> 0,
            i |-> 0, broke |-> FALSE]

\* the fields get_distance is evaluated on: every primitive, every
\* combinator of two primitives, and combinators of combinators
CutJulia == Julia(V(0, 0, -100), MaxJuliaIter, FALSE, JuliaC, TRUE, 0)

Primitives ==
    {UnitSphere, Floor, Box,
     Cuboid(V(50, 0, 0), V(100, 50, 150)),
     Ring,
     Torus(V(100, 50, 0), SCALE, RDiv(SCALE, 4)),
     CutJulia}
    \cup {Julia(V(0, 0, 0), k, tr, JuliaC, FALSE, 0) :
             k \in 0..MaxJuliaIter, tr \in BOOLEAN}

Combine(A, B) ==
    {Union(a, b) : a \in A, b \in B}
    \cup {Subtraction(a, b) : a \in A, b \in B}
    \cup {Intersection(a, b) : a \in A, b \in B}

Nested ==
    {Union(UnitSphere, Floor), Subtraction(UnitSphere, Box),
     Intersection(Ring, Floor)}

Fields ==
    Primitives
    \cup Combine({UnitSphere, Floor, Box, Ring, CutJulia},
               {UnitSphere, Floor, Box, Ring, CutJulia})
    \cup Combine(Nested, {Box, Floor})
    \cup Combine({Ring}, Nested)
    \cup Combine({Union(Subtraction(UnitSphere, Box), Floor)}, Nested)

Coords == {-150, -25, 0, 50, 150}
Points ==
    {V(x, y, z) : x \in Coords, y \in Coords, z \in Coords}
    \cup {V(0, 0, -200), V(10, -20, -180), V(300, 0, 0)}

MarchIdle ==
    /\ rm = create_ray_marcher(UnitSphere)
    /\ ray = NoRay
    /\ pc = "idle"
    /\ i = 0
    /\ t = 0
    /\ result = Vec4_one
    /\ evals = 0
    /\ outcome = "none"
    /\ hit_p = Vec3_zero
    /\ shade_calls = 0
    /\ dsum = 0
    /\ prior_ok = TRUE
    /\ n = Vec3_zero
    /\ sr = NoRay
    /\ st = 0
    /\ sres = 0
    /\ shadow_ret = 0
    /\ sevals = 0

FieldIdle ==
    /\ fpc = "idle"
    /\ field = UnitSphere
    /\ point = Vec3_zero
    /\ js = NoJulia
    /\ jprev = Vec4_zero
    /\ dist = 0

\* create_image before its first loop, with the RayMarcher m; the pixels of
\* a row that were not assigned yet are <<-1, -1, -1>>
ImageState(m, at) ==
    /\ arc_ray_marcher = m
    /\ rpc = at
    /\ row_j = 0
    /\ col_i = 0
    /\ rows = [jj \in 0..(IMAGE_HEIGHT - 1) |-> "uninit"]
    /\ row = [ii \in 0..(IMAGE_WIDTH - 1) |-> <<-1, -1, -1>>]
    /\ image = [xy \in (0..(IMAGE_WIDTH - 1)) \X (0..(IMAGE_HEIGHT - 1))
                   |-> <<0, 0, 0>>]
    /\ written = {}
    /\ joined = [jj \in 0..(IMAGE_HEIGHT - 1) |-> 0]
    /\ worker_pc = [jj \in 0..(IMAGE_HEIGHT - 1) |-> "unspawned"]
    /\ worker_i = [jj \in 0..(IMAGE_HEIGHT - 1) |-> 0]
    /\ worker_row = [jj \in 0..(IMAGE_HEIGHT - 1) |->
                        [ii \in 0..(IMAGE_WIDTH - 1) |-> <<-1, -1, -1>>]]

ImageIdle ==
    /\ ImageState(create_ray_marcher(UnitSphere), "idle")
    /\ pixel_color = Vec4_zero
    /\ pixel_data = <<-1, -1, -1>>

(***************************************************************************)
(* main.rs: the camera of create_image, the ray of a pixel, and            *)
(* Vec4::to_pixel_data                                                     *)
(***************************************************************************)
Vec3_cross(a, b) ==
    Vec3_new(FSub(FMul(a.y, b.z), FMul(a.z, b.y)),
             FSub(FMul(a.z, b.x), FMul(a.x, b.z)),
             FSub(FMul(a.x, b.y), FMul(a.y, b.x)))

\* origin, horizontal, vertical and lower_left_corner as create_image
\* computes them
Camera ==
    LET viewport_height == 2 * SCALE
        viewport_width == FMul(RDiv(16 * SCALE, 9), viewport_height)
        focal_length == 3 * SCALE
        origin == V(-42, 5, -70)
        looking_at == V(30, -160, -250)
        view_direction ==
            Vec3_normalize(Vec3_internal_sub_vec_vec(looking_at, origin))
        horizontal ==
            Vec3_internal_mul_vec_scalar(
                Vec3_normalize(Vec3_cross(view_direction, V(0, 100, 0))),
                viewport_width)
        vertical ==
            Vec3_internal_mul_vec_scalar(
                Vec3_internal_neg_vec(
                    Vec3_normalize(Vec3_cross(view_direction, horizontal))),
                viewport_height)
        lower_left_view_corner ==
            Vec3_internal_sub_vec_vec(
                Vec3_internal_div_vec_scalar(
                    Vec3_internal_neg_vec(horizontal), 2 * SCALE),
                Vec3_internal_div_vec_scalar(vertical, 2 * SCALE))
    IN  [origin |-> origin,
         horizontal |-> horizontal,
         vertical |-> vertical,
         lower_left_corner |->
             Vec3_internal_add_vec_vec(
                 Vec3_internal_add_vec_vec(origin, lower_left_view_corner),
                 Vec3_internal_mul_vec_scalar(view_direction, focal_length))]

\* the ray calc_row marches for column ii of row jj
PixelRay(ii, jj) ==
    Ray_new(Camera.origin,
        Vec3_internal_sub_vec_vec(
            Vec3_internal_add_vec_vec(
                Vec3_internal_add_vec_vec(
                    Camera.lower_left_corner,
                    Vec3_internal_mul_vec_scalar(Camera.vertical,
                        FDiv(jj * SCALE, (IMAGE_HEIGHT - 1) * SCALE))),
                Vec3_internal_mul_vec_scalar(Camera.horizontal,
                    FDiv(ii * SCALE, (IMAGE_WIDTH - 1) * SCALE))),
            Camera.origin))

\* as_u8_of_product with the product rounded to the nearest byte
as_u8_of_product_Nearest(c) ==
    IF IsNaN(c) \/ c <= 0 THEN 0
    ELSE IF c > SCALE THEN 255
    ELSE IMin(255, RDiv(c * 255999, 1000 * SCALE))

\* (255.999 * c) as u8: the product truncated toward zero, saturated to
\* 0..255, and 0 for NaN
as_u8_of_product(c) ==
    IF IsNaN(c) \/ c <= 0 THEN 0
    ELSE IF c > SCALE THEN 255
    ELSE IMin(255, (c * 255999) \div (1000 * SCALE))

Vec4_to_pixel_data(v) ==
    <<as_u8_of_product(v.x), as_u8_of_product(v.y), as_u8_of_product(v.z)>>

(***************************************************************************)
(* RayMarcher::ray_marching, with shading and shadow                       *)
(***************************************************************************)
\* the call ray_marching(r) on the RayMarcher m is about to run its loop
MarchStart(m, r) ==
    /\ rm = m
    /\ ray = r
    /\ pc = "march"
    /\ i = 0
    /\ t = 0
    /\ result = Vec4_one
    /\ evals = 0
    /\ outcome = "none"
    /\ hit_p = Vec3_zero
    /\ shade_calls = 0
    /\ dsum = 0
    /\ prior_ok = TRUE
    /\ n = Vec3_zero
    /\ sr = NoRay
    /\ st = 0
    /\ sres = 0
    /\ shadow_ret = 0
    /\ sevals = 0
    /\ FieldIdle
    /\ ImageIdle

Init == \E m \in RayMarchers, r \in Rays : MarchStart(m, r)

\* let p = ray.orig + ray.dir * t
march_p == Vec3_internal_add_vec_vec(ray.orig,
                                     Vec3_internal_mul_vec_scalar(ray.dir, t))

shade_vars == <<n, sr, st, sres, shadow_ret, sevals>>

\* MarchMiss with the field sampled before the test of t against max_distance
MarchMiss_SamplesFirst ==
    /\ pc = "march"
    /\ i < rm.max_iterations
    /\ FGt(t, rm.max_distance)
    /\ evals' = evals + 1
    /\ result' = IF rm.debug THEN debug_color(rm, i) ELSE Vec4_zero
    /\ outcome' = "miss"
    /\ pc' = "done"
    /\ UNCHANGED <<rm, ray, i, t, hit_p, shade_calls, dsum, prior_ok>>
    /\ UNCHANGED shade_vars
    /\ UNCHANGED field_vars
    /\ UNCHANGED image_vars

\* t > max_distance at the top of an iteration
MarchMiss ==
    /\ pc = "march"
    /\ i < rm.max_iterations
    /\ FGt(t, rm.max_distance)
    /\ result' = IF rm.debug THEN debug_color(rm, i) ELSE Vec4_zero
    /\ outcome' = "miss"
    /\ pc' = "done"
    /\ UNCHANGED <<rm, ray, i, t, evals, hit_p, shade_calls, dsum, prior_ok>>
    /\ UNCHANGED shade_vars
    /\ UNCHANGED field_vars
    /\ UNCHANGED image_vars

\* MarchHit with the test d <= accuracy in place of d < accuracy
MarchHit_Inclusive ==
    /\ pc = "march"
    /\ i < rm.max_iterations
    /\ ~FGt(t, rm.max_distance)
    /\ LET p == march_p
           d == distance_field(rm, p)
       IN  /\ ~FGt(d, rm.accuracy)
           /\ ~IsNaN(d)
           /\ evals' = evals + 1
           /\ outcome' = "hit"
           /\ hit_p' = p
           /\ IF rm.debug
              THEN /\ result' = debug_color(rm, i)
                   /\ pc' = "done"
                   /\ UNCHANGED <<shade_calls, n, sr, st, sres>>
              ELSE /\ shade_calls' = shade_calls + 1
                   /\ n' = get_normal(rm, p)
                   /\ sr' = Ray_new(
                               Vec3_internal_add_vec_vec(p,
                                   Vec3_internal_mul_vec_scalar(n', rm.accuracy)),
                               Vec3_internal_neg_vec(rm.light_dir))
                   /\ st' = rm.shadow_dist_min
                   /\ sres' = SCALE
                   /\ pc' = "shadow"
                   /\ UNCHANGED result
    /\ UNCHANGED <<rm, ray, i, t, dsum, prior_ok, shadow_ret, sevals>>
    /\ UNCHANGED field_vars
    /\ UNCHANGED image_vars

\* d < accuracy: the debug colour, or the call of shading up to the loop of
\* shadow (get_normal, the shadow ray, the locals of shadow)
MarchHit ==
    /\ pc = "march"
    /\ i < rm.max_iterations
    /\ ~FGt(t, rm.max_distance)
    /\ LET p == march_p
           d == distance_field(rm, p)
       IN  /\ FLt(d, rm.accuracy)
           /\ evals' = evals + 1
           /\ outcome' = "hit"
           /\ hit_p' = p
           /\ IF rm.debug
              THEN /\ result' = debug_color(rm, i)
                   /\ pc' = "done"
                   /\ UNCHANGED <<shade_calls, n, sr, st, sres>>
              ELSE /\ shade_calls' = shade_calls + 1
                   /\ n' = get_normal(rm, p)
                   /\ sr' = Ray_new(
                               Vec3_internal_add_vec_vec(p,
                                   Vec3_internal_mul_vec_scalar(n', rm.accuracy)),
                               Vec3_internal_neg_vec(rm.light_dir))
                   /\ st' = rm.shadow_dist_min
                   /\ sres' = SCALE
                   /\ pc' = "shadow"
                   /\ UNCHANGED result
    /\ UNCHANGED <<rm, ray, i, t, dsum, prior_ok, shadow_ret, sevals>>
    /\ UNCHANGED field_vars
    /\ UNCHANGED image_vars

\* MarchAdvance in a loop that does not count its iterations
MarchAdvance_Uncounted ==
    /\ pc = "march"
    /\ i < rm.max_iterations
    /\ ~FGt(t, rm.max_distance)
    /\ LET d == distance_field(rm, march_p)
       IN  /\ ~FLt(d, rm.accuracy)
           /\ t' = FAdd(t, d)
           /\ dsum' = FAdd(dsum, d)
           /\ prior_ok' = (prior_ok /\ ~FLt(d, rm.accuracy)
                                    /\ ~FGt(t, rm.max_distance))
    /\ evals' = evals + 1
    /\ UNCHANGED <<rm, ray, pc, i, result, outcome, hit_p, shade_calls>>
    /\ UNCHANGED shade_vars
    /\ UNCHANGED field_vars
    /\ UNCHANGED image_vars

\* d >= accuracy: t += d and the next iteration
MarchAdvance ==
    /\ pc = "march"
    /\ i < rm.max_iterations
    /\ ~FGt(t, rm.max_distance)
    /\ LET d == distance_field(rm, march_p)
       IN  /\ ~FLt(d, rm.accuracy)
           /\ t' = FAdd(t, d)
           /\ dsum' = FAdd(dsum, d)
           /\ prior_ok' = (prior_ok /\ ~FLt(d, rm.accuracy)
                                    /\ ~FGt(t, rm.max_distance))
    /\ i' = i + 1
    /\ evals' = evals + 1
    /\ UNCHANGED <<rm, ray, pc, result, outcome, hit_p, shade_calls>>
    /\ UNCHANGED shade_vars
    /\ UNCHANGED field_vars
    /\ UNCHANGED image_vars

\* the range 0..max_iterations is used up: result is returned as initialised
MarchExhausted ==
    /\ pc = "march"
    /\ i >= rm.max_iterations
    /\ outcome' = "exhausted"
    /\ pc' = "done"
    /\ UNCHANGED <<rm, ray, i, t, result, evals, hit_p, shade_calls, dsum,
                   prior_ok>>
    /\ UNCHANGED shade_vars
    /\ UNCHANGED field_vars
    /\ UNCHANGED image_vars

\* let p = sr.orig + sr.dir * t, in shadow
shadow_p == Vec3_internal_add_vec_vec(sr.orig,
                                      Vec3_internal_mul_vec_scalar(sr.dir, st))

\* ShadowOccluded leaving the loop with the factor reached so far
ShadowOccluded_KeepsFactor ==
    /\ pc = "shadow"
    /\ FLt(st, rm.shadow_dist_max)
    /\ FLt(distance_field(rm, shadow_p), rm.accuracy)
    /\ sevals' = sevals + 1
    /\ shadow_ret' = FClamp(sres, 0, SCALE)
    /\ result' = shading_composite(rm, hit_p, n, shadow_ret')
    /\ pc' = "done"
    /\ UNCHANGED <<rm, ray, i, t, evals, outcome, hit_p, shade_calls, dsum,
                   prior_ok, n, sr, st, sres>>
    /\ UNCHANGED field_vars
    /\ UNCHANGED image_vars

\* shadow returns 0., and shading finishes
ShadowOccluded ==
    /\ pc = "shadow"
    /\ FLt(st, rm.shadow_dist_max)
    /\ FLt(distance_field(rm, shadow_p), rm.accuracy)
    /\ sevals' = sevals + 1
    /\ shadow_ret' = 0
    /\ result' = shading_composite(rm, hit_p, n, 0)
    /\ pc' = "done"
    /\ UNCHANGED <<rm, ray, i, t, evals, outcome, hit_p, shade_calls, dsum,
                   prior_ok, n, sr, st, sres>>
    /\ UNCHANGED field_vars
    /\ UNCHANGED image_vars

\* ShadowAdvance that leaves t where it was
ShadowAdvance_Stalls ==
    /\ pc = "shadow"
    /\ FLt(st, rm.shadow_dist_max)
    /\ LET d == distance_field(rm, shadow_p)
       IN  /\ ~FLt(d, rm.accuracy)
           /\ sres' = FMin(sres, FDiv(FMul(rm.shadow_fuzziness, d), st))
           /\ st' = st
    /\ sevals' = sevals + 1
    /\ UNCHANGED <<rm, ray, pc, i, t, result, evals, outcome, hit_p,
                   shade_calls, dsum, prior_ok, n, sr, shadow_ret>>
    /\ UNCHANGED field_vars
    /\ UNCHANGED image_vars

\* one iteration of the loop of shadow that does not return
ShadowAdvance ==
    /\ pc = "shadow"
    /\ FLt(st, rm.shadow_dist_max)
    /\ LET d == distance_field(rm, shadow_p)
       IN  /\ ~FLt(d, rm.accuracy)
           /\ sres' = FMin(sres, FDiv(FMul(rm.shadow_fuzziness, d), st))
           /\ st' = FAdd(st, d)
    /\ sevals' = sevals + 1
    /\ UNCHANGED <<rm, ray, pc, i, t, result, evals, outcome, hit_p,
                   shade_calls, dsum, prior_ok, n, sr, shadow_ret>>
    /\ UNCHANGED field_vars
    /\ UNCHANGED image_vars

\* the loop of shadow ends: shadow returns result.clamp(0., 1.), and shading
\* finishes
ShadowEnd ==
    /\ pc = "shadow"
    /\ ~FLt(st, rm.shadow_dist_max)
    /\ shadow_ret' = FClamp(sres, 0, SCALE)
    /\ result' = shading_composite(rm, hit_p, n, shadow_ret')
    /\ pc' = "done"
    /\ UNCHANGED <<rm, ray, i, t, evals, outcome, hit_p, shade_calls, dsum,
                   prior_ok, n, sr, st, sres, sevals>>
    /\ UNCHANGED field_vars
    /\ UNCHANGED image_vars

Next ==
    \/ MarchMiss
    \/ MarchHit
    \/ MarchAdvance
    \/ MarchExhausted
    \/ ShadowOccluded
    \/ ShadowAdvance
    \/ ShadowEnd

Spec == Init /\ [][Next]_vars

(***************************************************************************)
(* DistanceField::get_distance, called on its own; the loop of             *)
(* Julia::get_distance is taken one pass at a time                         *)
(***************************************************************************)
FieldInit ==
    /\ MarchIdle
    /\ ImageIdle
    /\ fpc = "eval"
    /\ field \in Fields
    /\ point \in Points
    /\ js = NoJulia
    /\ jprev = Vec4_zero
    /\ dist = 0

\* get_distance of a field that is not a Julia
Evaluate ==
    /\ fpc = "eval"
    /\ field.kind # "Julia"
    /\ dist' = get_distance(field, point)
    /\ fpc' = "done"
    /\ UNCHANGED <<field, point, js, jprev>>
    /\ UNCHANGED march_vars
    /\ UNCHANGED image_vars

\* Julia::get_distance up to its loop
JuliaEnter ==
    /\ fpc = "eval"
    /\ field.kind = "Julia"
    /\ js' = Julia_init(field, point)
    /\ fpc' = "julia"
    /\ UNCHANGED <<field, point, jprev, dist>>
    /\ UNCHANGED march_vars
    /\ UNCHANGED image_vars

\* one pass through the loop of Julia::get_distance
JuliaPass ==
    /\ fpc = "julia"
    /\ ~Julia_loop_done(field, js)
    /\ jprev' = js.z
    /\ js' = Julia_iteration(field, js)
    /\ UNCHANGED <<fpc, field, point, dist>>
    /\ UNCHANGED march_vars
    /\ UNCHANGED image_vars

\* Julia::get_distance after its loop
JuliaReturn ==
    /\ fpc = "julia"
    /\ Julia_loop_done(field, js)
    /\ dist' = Julia_finish(field, point, js)
    /\ fpc' = "done"
    /\ UNCHANGED <<field, point, js, jprev>>
    /\ UNCHANGED march_vars
    /\ UNCHANGED image_vars

FieldNext ==
    \/ Evaluate
    \/ JuliaEnter
    \/ JuliaPass
    \/ JuliaReturn

FieldSpec == FieldInit /\ [][FieldNext]_vars

(***************************************************************************)
(* main.rs: create_image and the row workers of calc_row                   *)
(***************************************************************************)
\* create_image after image, rows and the Arc values are built
RenderInit ==
    /\ MarchIdle
    /\ FieldIdle
    /\ pixel_color = Vec4_zero
    /\ pixel_data = <<-1, -1, -1>>
    /\ \E s \in {Union(UnitSphere, Floor),
                 Union(Sphere(V(30, -160, -250), SCALE),
                       Plane(V(0, 100, 0), 3 * SCALE)),
                 CutJulia} :
           ImageState(create_ray_marcher(s), "spawn")

\* one pass of the first loop: rows[j] = Some(calc_row(..)), and the thread
\* of calc_row starts
Spawn ==
    /\ rpc = "spawn"
    /\ row_j < IMAGE_HEIGHT
    /\ rows' = [rows EXCEPT ![row_j] = "some"]
    /\ worker_pc' = [worker_pc EXCEPT ![row_j] = "running"]
    /\ row_j' = IF row_j + 1 = IMAGE_HEIGHT THEN 0 ELSE row_j + 1
    /\ rpc' = IF row_j + 1 = IMAGE_HEIGHT THEN "join" ELSE "spawn"
    /\ UNCHANGED <<arc_ray_marcher, col_i, row, image, written, joined,
                   worker_i, worker_row>>
    /\ UNCHANGED <<pixel_color, pixel_data>>
    /\ UNCHANGED march_vars
    /\ UNCHANGED field_vars

\* the assignment rows[j] = .. first drops the old rows[j], which was never
\* initialised: where its bytes read as Some(handle) the drop ends the process
SpawnDropsUninit ==
    /\ rpc = "spawn"
    /\ row_j < IMAGE_HEIGHT
    /\ rows[row_j] = "uninit"
    /\ rpc' = "aborted"
    /\ UNCHANGED <<arc_ray_marcher, row_j, col_i, rows, row, image, written,
                   joined, worker_pc, worker_i, worker_row>>
    /\ UNCHANGED <<pixel_color, pixel_data>>
    /\ UNCHANGED march_vars
    /\ UNCHANGED field_vars

\* one pass of the loop of calc_row in the worker of row jj
WorkerPixel(jj) ==
    /\ worker_pc[jj] = "running"
    /\ worker_i[jj] < IMAGE_WIDTH
    /\ worker_row' =
           [worker_row EXCEPT ![jj][worker_i[jj]] =
               Vec4_to_pixel_data(
                   ray_marching(arc_ray_marcher, PixelRay(worker_i[jj], jj)))]
    /\ worker_i' = [worker_i EXCEPT ![jj] = worker_i[jj] + 1]
    /\ UNCHANGED worker_pc
    /\ UNCHANGED arc_ray_marcher
    /\ UNCHANGED <<rpc, row_j, col_i, rows, row, image, written, joined>>
    /\ UNCHANGED <<pixel_color, pixel_data>>
    /\ UNCHANGED march_vars
    /\ UNCHANGED field_vars

\* the closure of calc_row returns row
WorkerReturn(jj) ==
    /\ worker_pc[jj] = "running"
    /\ worker_i[jj] = IMAGE_WIDTH
    /\ worker_pc' = [worker_pc EXCEPT ![jj] = "finished"]
    /\ UNCHANGED <<worker_i, worker_row>>
    /\ UNCHANGED arc_ray_marcher
    /\ UNCHANGED <<rpc, row_j, col_i, rows, row, image, written, joined>>
    /\ UNCHANGED <<pixel_color, pixel_data>>
    /\ UNCHANGED march_vars
    /\ UNCHANGED field_vars

\* Join that takes the row of a worker without waiting for its return
Join_WithoutWaiting ==
    /\ rpc = "join"
    /\ row_j < IMAGE_HEIGHT
    /\ rows[row_j] = "some"
    /\ rows' = [rows EXCEPT ![row_j] = "none"]
    /\ row' = worker_row[row_j]
    /\ joined' = [joined EXCEPT ![row_j] = joined[row_j] + 1]
    /\ worker_pc' = [worker_pc EXCEPT ![row_j] = "joined"]
    /\ col_i' = 0
    /\ rpc' = "put"
    /\ UNCHANGED <<arc_ray_marcher, row_j, image, written, worker_i,
                   worker_row>>
    /\ UNCHANGED <<pixel_color, pixel_data>>
    /\ UNCHANGED march_vars
    /\ UNCHANGED field_vars

\* x.take().unwrap(), handle.join() and result.unwrap() of the second loop
Join ==
    /\ rpc = "join"
    /\ row_j < IMAGE_HEIGHT
    /\ rows[row_j] = "some"
    /\ worker_pc[row_j] = "finished"
    /\ rows' = [rows EXCEPT ![row_j] = "none"]
    /\ row' = worker_row[row_j]
    /\ joined' = [joined EXCEPT ![row_j] = joined[row_j] + 1]
    /\ worker_pc' = [worker_pc EXCEPT ![row_j] = "joined"]
    /\ col_i' = 0
    /\ rpc' = "put"
    /\ UNCHANGED <<arc_ray_marcher, row_j, image, written, worker_i,
                   worker_row>>
    /\ UNCHANGED <<pixel_color, pixel_data>>
    /\ UNCHANGED march_vars
    /\ UNCHANGED field_vars

\* PutPixel that writes row j to line j of the image
PutPixel_Unflipped ==
    /\ rpc = "put"
    /\ col_i < IMAGE_WIDTH
    /\ image' = [image EXCEPT ![<<col_i, row_j>>] = row[col_i]]
    /\ written' = written \cup {<<col_i, row_j>>}
    /\ col_i' = IF col_i + 1 = IMAGE_WIDTH THEN 0 ELSE col_i + 1
    /\ row_j' = IF col_i + 1 = IMAGE_WIDTH THEN row_j + 1 ELSE row_j
    /\ rpc' = IF col_i + 1 = IMAGE_WIDTH THEN "join" ELSE "put"
    /\ UNCHANGED <<arc_ray_marcher, rows, row, joined, worker_pc, worker_i,
                   worker_row>>
    /\ UNCHANGED <<pixel_color, pixel_data>>
    /\ UNCHANGED march_vars
    /\ UNCHANGED field_vars

\* image.put_pixel(i, IMAGE_HEIGHT - j - 1, Rgb(x[i]))
PutPixel ==
    /\ rpc = "put"
    /\ col_i < IMAGE_WIDTH
    /\ image' = [image EXCEPT ![<<col_i, IMAGE_HEIGHT - row_j - 1>>] =
                                  row[col_i]]
    /\ written' = written \cup {<<col_i, IMAGE_HEIGHT - row_j - 1>>}
    /\ col_i' = IF col_i + 1 = IMAGE_WIDTH THEN 0 ELSE col_i + 1
    /\ row_j' = IF col_i + 1 = IMAGE_WIDTH THEN row_j + 1 ELSE row_j
    /\ rpc' = IF col_i + 1 = IMAGE_WIDTH THEN "join" ELSE "put"
    /\ UNCHANGED <<arc_ray_marcher, rows, row, joined, worker_pc, worker_i,
                   worker_row>>
    /\ UNCHANGED <<pixel_color, pixel_data>>
    /\ UNCHANGED march_vars
    /\ UNCHANGED field_vars

\* create_image returns image
Return ==
    /\ rpc = "join"
    /\ row_j = IMAGE_HEIGHT
    /\ rpc' = "returned"
    /\ UNCHANGED <<arc_ray_marcher, row_j, col_i, rows, row, image, written,
                   joined, worker_pc, worker_i, worker_row>>
    /\ UNCHANGED <<pixel_color, pixel_data>>
    /\ UNCHANGED march_vars
    /\ UNCHANGED field_vars

RenderNext ==
    \/ Spawn
    \/ SpawnDropsUninit
    \/ \E jj \in 0..(IMAGE_HEIGHT - 1) : WorkerPixel(jj)
    \/ \E jj \in 0..(IMAGE_HEIGHT - 1) : WorkerReturn(jj)
    \/ Join
    \/ PutPixel
    \/ Return

RenderSpec == RenderInit /\ [][RenderNext]_vars

(***************************************************************************)
(* vec4.rs: to_pixel_data applied to one colour, as calc_row applies it    *)
(***************************************************************************)
\* a colour with channels all over [0, 1], or with a channel outside it
PixelInit ==
    /\ MarchIdle
    /\ FieldIdle
    /\ ImageState(create_ray_marcher(UnitSphere), "idle")
    /\ pixel_data = <<-1, -1, -1>>
    /\ \/ \E c \in 0..SCALE :
              pixel_color = Vec4_new(c, SCALE - c, FMul(c, c), SCALE)
       \/ \E c \in {-SCALE, -1, SCALE + 1, 3 * SCALE, PosInf, NegInf, NaN} :
              pixel_color = Vec4_new(c, 0, SCALE, SCALE)

\* row[i] = pixel_color.to_pixel_data()
Quantize ==
    /\ pixel_data = <<-1, -1, -1>>
    /\ pixel_data' = Vec4_to_pixel_data(pixel_color)
    /\ UNCHANGED <<arc_ray_marcher, rpc, row_j, col_i, rows, row, image,
                   written, joined, worker_pc, worker_i, worker_row,
                   pixel_color>>
    /\ UNCHANGED march_vars
    /\ UNCHANGED field_vars

PixelSpec == PixelInit /\ [][Quantize]_vars

(***************************************************************************)
(* Properties of the primary march                                         *)
(***************************************************************************)
NonDebugDone == pc = "done" /\ ~rm.debug

\* C1: in non-debug mode a march that uses up max_iterations steps, with no
\* sample below accuracy and t never above max_distance, returns the colour
\* of a distance miss: black, Vec4::zero().
C1_ExhaustionIsMiss ==
    (NonDebugDone /\ outcome = "exhausted") => result = Vec4_zero

InUnitRange(c) == IsFinite(c) /\ 0 <= c /\ c <= SCALE

\* C2: with the RayMarcher create_ray_marcher builds, every colour channel
\* ray_marching returns is in [0,1], whatever the scene and the ray.
C2_OutputInUnitRange ==
    (pc = "done" /\ rm = create_ray_marcher(rm.scene))
        => (InUnitRange(result.x) /\ InUnitRange(result.y)
            /\ InUnitRange(result.z))

\* C3: the primary march terminates, for every field: its loop evaluates the
\* field at most max_iterations times and is then left.  Every step taken
\* inside the loop leaves it or uses up one of the max_iterations
\* iterations with one field evaluation, and once they are used up the next
\* step returns.
C3_MarchTerminates ==
    /\ [](evals <= rm.max_iterations /\ i <= rm.max_iterations)
    /\ [][pc = "march" =>
             \/ pc' # "march"
             \/ (i' = i + 1 /\ evals' = evals + 1)]_vars
    /\ [][(pc = "march" /\ i >= rm.max_iterations) => pc' = "done"]_vars

\* the loop was left by exhaustion on the field that returns the smallest
\* value that is not a hit at every point of the ray
C3_Witness ==
    /\ pc = "done"
    /\ outcome = "exhausted"
    /\ rm.scene = NearPlane
    /\ dsum = rm.max_iterations * rm.accuracy
    /\ evals = rm.max_iterations

AtDistanceCheck ==
    pc = "march" /\ i < rm.max_iterations /\ FGt(t, rm.max_distance)

\* C4: at the first step i < max_iterations that starts with
\* t > max_distance the march stops as a miss without another field
\* evaluation and, in non-debug mode, returns black; such a ray does not end
\* by exhaustion.
C4_DistanceMiss ==
    [][AtDistanceCheck =>
          /\ pc' = "done"
          /\ outcome' = "miss"
          /\ evals' = evals
          /\ (~rm.debug => result' = Vec4_zero)]_vars

C4_Witness ==
    /\ NonDebugDone
    /\ outcome = "miss"
    /\ result = Vec4_zero
    /\ prior_ok
    /\ evals > 0
    /\ evals < rm.max_iterations

\* C5: in non-debug mode shading is called at most once per march, and only
\* at p = origin + direction * t with field value < accuracy, t being the
\* sum of the field values of all earlier samples, each of which had
\* d >= accuracy and t <= max_distance.  In debug mode it is never called.
C5_ShadingAtHit ==
    /\ shade_calls <= 1
    /\ rm.debug => shade_calls = 0
    /\ shade_calls = 1 =>
          /\ outcome = "hit"
          /\ hit_p = march_p
          /\ FLt(get_distance(rm.scene, hit_p), rm.accuracy)
          /\ t = dsum
          /\ prior_ok
          /\ evals = i + 1

C5_Witness ==
    /\ shade_calls = 1
    /\ outcome = "hit"
    /\ evals > 1
    /\ t > 0

C6_Ray == Ray_new(V(0, 0, 0), V(0, 0, -100))

\* C6: for the Sphere with centre (0,0,-2) and radius 0.5 and the ray from
\* (0,0,0) along (0,0,-1) the march reports a hit at t = 1.5, at the second
\* field evaluation, at the point (0,0,-1.5), where get_normal is (0,0,1).
C6_EndToEnd ==
    (/\ rm.scene = Sphere(V(0, 0, -200), RDiv(SCALE, 2))
     /\ ray = C6_Ray
     /\ rm.max_iterations >= 2
     /\ pc # "march")
        => /\ outcome = "hit"
           /\ evals = 2
           /\ t = RDiv(15 * SCALE, 10)
           /\ hit_p = V(0, 0, -150)
           /\ get_normal(rm, hit_p) = V(0, 0, 100)
           /\ (~rm.debug => n = V(0, 0, 100))

C6_Witness ==
    /\ rm.scene = UnitSphere
    /\ ray = C6_Ray
    /\ NonDebugDone
    /\ outcome = "hit"
    /\ n = V(0, 0, 100)

(***************************************************************************)
(* Properties of the distance fields                                       *)
(***************************************************************************)
IsNumber(a) == ~IsNaN(a)
ChildrenAreNumbers ==
    IsNumber(get_distance(field.a, point))
    /\ IsNumber(get_distance(field.b, point))

\* C7: for all child fields a, b, nested to any depth, and all points p:
\* Union is min(distance(a,p), distance(b,p)), Subtraction is
\* max(-distance(a,p), distance(b,p)), Intersection is
\* max(distance(a,p), distance(b,p)).
C7_Combinators ==
    (fpc = "done" /\ field.kind \in {"Union", "Subtraction", "Intersection"}
     /\ ChildrenAreNumbers)
        => /\ field.kind = "Union" =>
                 dist = IMin(get_distance(field.a, point),
                             get_distance(field.b, point))
           /\ field.kind = "Subtraction" =>
                 dist = IMax(FNeg(get_distance(field.a, point)),
                             get_distance(field.b, point))
           /\ field.kind = "Intersection" =>
                 dist = IMax(get_distance(field.a, point),
                             get_distance(field.b, point))

\* a combinator of a combinator was evaluated where the two children differ
C7_Witness ==
    /\ fpc = "done"
    /\ field.kind = "Subtraction"
    /\ field.a.kind = "Union"
    /\ field.b.kind = "Intersection"
    /\ ChildrenAreNumbers
    /\ FNeg(get_distance(field.a, point)) # get_distance(field.b, point)
    /\ dist = get_distance(field.b, point)

Cuboid_q == Vec3_internal_sub_vec_vec(
                Vec3_abs(Vec3_internal_sub_vec_vec(point, field.pos)),
                field.size3)

\* C8: the Cuboid distance is length(max(q,0)) + min(max_component(q),0),
\* q = abs(point - center) - half_extent: strictly inside the box it is
\* negative and equals max_component(q); outside it is the non-negative
\* length of max(q,0).
C8_CuboidDistance ==
    (fpc = "done" /\ field.kind = "Cuboid")
        => /\ dist = FAdd(Vec3_length(Vec3_max(Cuboid_q, 0)),
                          FMin(Vec3_max_element(Cuboid_q), 0))
           /\ (Cuboid_q.x < 0 /\ Cuboid_q.y < 0 /\ Cuboid_q.z < 0)
                 => (dist < 0 /\ dist = Vec3_max_element(Cuboid_q))
           /\ Vec3_max_element(Cuboid_q) > 0
                 => (dist >= 0 /\ dist = Vec3_length(Vec3_max(Cuboid_q, 0)))

Shifts == {V(100, 0, 0), V(0, 50, 0), V(0, 0, -200), V(-50, 25, 75)}

\* C9: the Torus distance depends on the point only through point - center:
\* moving the centre and the point by the same vector leaves it unchanged.
C9_TorusLocalFrame ==
    (fpc = "done" /\ field.kind = "Torus")
        => \A v \in Shifts :
              dist = get_distance(
                         [field EXCEPT !.pos = Vec3_internal_add_vec_vec(@, v)],
                         Vec3_internal_add_vec_vec(point, v))

\* the quaternion cube of z, by the expansion of C10
QuaternionCube(z) ==
    q_cube_result(z,
        FSub(FSub(FSub(FMul(z.x, z.x), FMul(FMul(z.y, z.y), 3 * SCALE)),
                  FMul(FMul(z.z, z.z), 3 * SCALE)),
             FMul(FMul(z.w, z.w), 3 * SCALE)),
        FSub(FSub(FSub(FMul(FMul(z.x, z.x), 3 * SCALE), FMul(z.y, z.y)),
                  FMul(z.z, z.z)),
             FMul(z.w, z.w)))

\* the componentwise sum of two 4-vectors
ComponentwiseSum(a, b) ==
    Vec4_new(FAdd(a.x, b.x), FAdd(a.y, b.y), FAdd(a.z, b.z), FAdd(a.w, b.w))

\* C10: each pass of the Julia loop replaces z by z^3 + c, z^3 the quaternion
\* cube (x(x^2-3y^2-3z^2-3w^2), y*k, z*k, w*k), k = 3x^2-y^2-z^2-w^2, the sum
\* taken componentwise in all four components.
C10_JuliaCubePlusC ==
    (fpc = "julia" /\ js.i > 0)
        => js.z = ComponentwiseSum(QuaternionCube(jprev), field.c)


\* C11: a Julia field with iterations = 0 returns a finite number, neither
\* NaN nor an infinity, at every point, with traps and cut off or on.
C11_JuliaZeroIterations ==
    (fpc = "done" /\ field.kind = "Julia" /\ field.iterations = 0)
        => IsFinite(dist)


(***************************************************************************)
(* Properties of shadow, ambient_occlusion and the debug colour            *)
(***************************************************************************)
\* shadow_fuzziness * d / t at the sample the shadow march is about to take
PenumbraAtSample ==
    FDiv(FMul(rm.shadow_fuzziness, distance_field(rm, shadow_p)), st)

ShadowSampleIsHit ==
    /\ pc = "shadow"
    /\ FLt(st, rm.shadow_dist_max)
    /\ FLt(distance_field(rm, shadow_p), rm.accuracy)

\* C12: the factor shadow returns is in [0,1]; it starts at 1, each step
\* that does not return lowers it to min(factor, shadow_fuzziness * d / t),
\* and a sample with d < accuracy makes shadow return exactly 0 with no
\* further field evaluation of the shadow march.
C12_ShadowFactor ==
    /\ [](InUnitRange(shadow_ret) /\ (pc = "shadow" => InUnitRange(sres)))
    /\ [][(pc = "march" /\ pc' = "shadow") => (sres' = SCALE /\ sevals' = 0)]_vars
    /\ [][(pc = "shadow" /\ pc' = "shadow") =>
             /\ sres' <= sres
             /\ sres' = IF IsNaN(PenumbraAtSample) THEN sres
                        ELSE IMin(sres, PenumbraAtSample)]_vars
    /\ [][ShadowSampleIsHit =>
             (pc' = "done" /\ shadow_ret' = 0 /\ sevals' = sevals + 1)]_vars
    /\ [][(pc = "shadow" /\ pc' = "done" /\ ~ShadowSampleIsHit) =>
             (shadow_ret' = IMax(0, sres) /\ sevals' = sevals)]_vars
    /\ [][pc = "done" => (sevals' = sevals /\ shadow_ret' = shadow_ret)]_vars

\* shadow returned 0 at a sample after the factor had been lowered
C12_Witness ==
    /\ pc = "done"
    /\ shade_calls = 1
    /\ shadow_ret = 0
    /\ sevals > 1
    /\ sres > 0
    /\ sres < SCALE


(***************************************************************************)
(* Properties of create_image                                              *)
(***************************************************************************)
\* what a sequential render puts at column x of line y of the image
SequentialPixel(x, y) ==
    Vec4_to_pixel_data(
        ray_marching(arc_ray_marcher, PixelRay(x, IMAGE_HEIGHT - 1 - y)))

Pixels == (0..(IMAGE_WIDTH - 1)) \X (0..(IMAGE_HEIGHT - 1))

\* C13: whatever the order in which the row workers ran, the image that
\* create_image returns holds at (i, IMAGE_HEIGHT - 1 - j) the quantized
\* march result of the ray of column i of row j, as a sequential render
\* would; and every pixel that was written so far already holds that value.
C13_ImageIsSequential ==
    /\ \A xy \in written : image[xy] = SequentialPixel(xy[1], xy[2])
    /\ rpc = "returned" =>
           \A xy \in Pixels : image[xy] = SequentialPixel(xy[1], xy[2])

\* an image was returned whose lines differ, so a misplaced row would show
C13_Witness ==
    /\ rpc = "returned"
    /\ \E x \in 0..(IMAGE_WIDTH - 1) :
           image[<<x, 0>>] # image[<<x, IMAGE_HEIGHT - 1>>]
    /\ \E y \in 0..(IMAGE_HEIGHT - 1) :
           image[<<0, y>>] # image[<<IMAGE_WIDTH - 1, y>>]


(***************************************************************************)
(* Properties of shading                                                   *)
(***************************************************************************)
\* the colour shading returns when ambient_occlusion returned occ: the sun
\* term, in which occ does not occur, plus the ambient term times occ
ShadedWithOcclusion(occ) ==
    /\ InUnitRange(occ)
    /\ occ = FClamp(FSub(SCALE,
                         FMul(ambient_occlusion_loop(rm, hit_p, n, 0, 0),
                              rm.ao_intensity)),
                    0, SCALE)
    /\ result =
           Vec4_from_vec3(
               Vec3_internal_add_vec_vec(
                   sun_light(rm, n, shadow_ret),
                   Vec3_internal_mul_vec_scalar(bg_light(rm, SCALE), occ)),
               SCALE)

\* C14: the value of ambient_occlusion is clamp(1 - ao * ao_intensity, 0, 1),
\* lies in [0, 1], and multiplies the ambient term only: the shaded colour is
\* the sun term, computed without it, plus the ambient term scaled by it.
C14_OcclusionScalesAmbientOnly ==
    (pc = "done" /\ shade_calls = 1) =>
        ShadedWithOcclusion(ambient_occlusion(rm, hit_p, n))

\* a lit point that is partly occluded
C14_WitnessAt(occ) ==
    /\ pc = "done"
    /\ shade_calls = 1
    /\ occ > 0
    /\ occ < SCALE
    /\ shadow_ret > 0
    /\ sun_light(rm, n, shadow_ret).x > 0

C14_Witness == C14_WitnessAt(ambient_occlusion(rm, hit_p, n))


\* floor((shadow_dist_max - shadow_dist_min) / accuracy) + 1
ShadowBound ==
    ((rm.shadow_dist_max - rm.shadow_dist_min) \div rm.accuracy) + 1

StepFraction == FDiv(i * SCALE, rm.max_iterations * SCALE)

\* C16: in debug mode the march never calls shading (and so neither shadow),
\* and a march that ends with a miss or a hit at the zero-based step i returns
\* a colour whose four channels are all i / max_iterations, a value in [0, 1).
C16_DebugColour ==
    rm.debug =>
        /\ shade_calls = 0
        /\ sevals = 0
        /\ pc # "shadow"
        /\ (pc = "done" /\ outcome \in {"miss", "hit"}) =>
               /\ result = [x |-> StepFraction, y |-> StepFraction,
                            z |-> StepFraction, w |-> StepFraction]
               /\ 0 <= StepFraction
               /\ StepFraction < SCALE

\* a debug march that hit after at least one step
C16_Witness ==
    /\ rm.debug
    /\ pc = "done"
    /\ outcome = "hit"
    /\ i > 0
    /\ result.x > 0


\* the lines of the image that hold the row of worker jj
LineOf(jj) == IMAGE_HEIGHT - 1 - jj

Workers == 0..(IMAGE_HEIGHT - 1)

\* C17: a pixel of the row of a worker is written only after that worker
\* finished and was joined; no worker is joined more than once, a join only
\* takes a worker that has finished, and create_image returns only after all
\* IMAGE_HEIGHT workers were joined exactly once and every pixel was written.
C17_JoinBeforeWrite ==
    /\ [](\A xy \in written :
              \E jj \in Workers : /\ xy[2] = LineOf(jj)
                                  /\ worker_pc[jj] = "joined"
                                  /\ joined[jj] = 1)
    /\ [](\A jj \in Workers :
              /\ joined[jj] <= 1
              /\ joined[jj] = 1 <=> worker_pc[jj] = "joined")
    /\ [][\A jj \in Workers :
              joined'[jj] # joined[jj] =>
                  (worker_pc[jj] = "finished" /\ worker_i[jj] = IMAGE_WIDTH
                       /\ row' = worker_row[jj])]_vars
    /\ [](rpc = "returned" =>
              /\ \A jj \in Workers : joined[jj] = 1
              /\ written = (0..(IMAGE_WIDTH - 1)) \X (0..(IMAGE_HEIGHT - 1)))

\* the first row was joined and is being written while the worker of the
\* last row has already finished and the worker of the second still runs
C17_Witness ==
    /\ rpc = "put"
    /\ row_j = 0
    /\ written # {}
    /\ joined[0] = 1
    /\ worker_pc[IMAGE_HEIGHT - 1] = "finished"
    /\ worker_pc[1] = "running"

(***************************************************************************)
(* Properties of to_pixel_data                                             *)
(***************************************************************************)
\* the three channels to_pixel_data reads, and whether it has returned
Channel == <<pixel_color.x, pixel_color.y, pixel_color.z>>

Quantized == pixel_data # <<-1, -1, -1>>

\* C18 as stated: each channel c in [0, 1] is quantized to 255.999 * c rounded
\* to the nearest integer.
C18_RoundsToNearest ==
    Quantized =>
        \A k \in 1..3 :
            InUnitRange(Channel[k]) =>
                pixel_data[k] = RDiv(Channel[k] * 255999, 1000 * SCALE)

\* C18, amended: each channel c in [0, 1] is quantized to 255.999 * c
\* truncated toward zero, a byte in 0..255 that is 0 for c = 0 and 255 for
\* c = 1 and never above the nearest integer.
C18_TruncatesTowardZero ==
    Quantized =>
        \A k \in 1..3 :
            InUnitRange(Channel[k]) =>
                /\ pixel_data[k] = (Channel[k] * 255999) \div (1000 * SCALE)
                /\ pixel_data[k] \in 0..255
                /\ Channel[k] = 0 => pixel_data[k] = 0
                /\ Channel[k] = SCALE => pixel_data[k] = 255
                /\ pixel_data[k] <= RDiv(Channel[k] * 255999, 1000 * SCALE)

\* the channel 0.5, whose product 127.9995 is quantized to 127
C18_Witness ==
    /\ Quantized
    /\ Channel[1] = RDiv(SCALE, 2)
    /\ pixel_data[1] = 127


(***************************************************************************)
(* Properties of the parameter of the primary march                        *)
(***************************************************************************)
\* ray_marching is about to evaluate the field at ray.orig + ray.dir * t
FieldSampleNext ==
    /\ pc = "march"
    /\ i < rm.max_iterations
    /\ ~FGt(t, rm.max_distance)

\* C19: in a primary march with accuracy > 0 the field is evaluated only at
\* parameters t with 0 <= t <= max_distance, and every step that does not end
\* the march leaves t larger by at least accuracy, so t strictly increases.
C19_MarchParameter ==
    /\ [](FieldSampleNext =>
              (IsFinite(t) /\ 0 <= t /\ t <= rm.max_distance))
    /\ [][(pc = "march" /\ pc' = "march" /\ rm.accuracy > 0) =>
              (~IsNaN(t') /\ t' >= t + rm.accuracy /\ t' > t)]_vars

====
